---- MODULE Spec2Model ----
(***************************************************************************)
(* Model of src/src/App.tsx: the two FlightTracker components.             *)
(*   - the live-source variant (lines 1-330): fetchFlights with fallback   *)
(*     to generateMockFlights, handleSearch, marker selection;             *)
(*   - the dual-mode variant (lines 332-655): fetchMockData, the           *)
(*     perturbation interval, handleSearch over flights and airports.      *)
(* Both components declare the same state names, so the two               *)
(* specifications SpecLive and SpecDual share one set of variables.        *)
(*                                                                         *)
(* Text is a sequence of UTF-16 code units.  Numbers are fixed-point       *)
(* integers counting units of 1/Unit.  A JavaScript value that may be      *)
(* null is a tagged record (Null, Str, Num, Bool).                         *)
(***************************************************************************)
EXTENDS Integers, Sequences, FiniteSets, TLC

VARIABLES
  variant,          \* which of the two components runs: "live" or "dual"
  flights,          \* useState<Flight[]>            (lines 99, 432)
  filteredFlights,  \* useState<Flight[]>            (lines 100, 433)
  airports,         \* useState<Airport[]>           (line 434)
  filteredAirports, \* useState<Airport[]>           (line 435)
  selectedFlight,   \* useState<Flight | null>       (lines 101, 436)
  selectedAirport,  \* useState<Airport | null>      (line 437)
  error,            \* useState<string | null>       (lines 102, 438)
  searchTerm,       \* useState("")                  (lines 103, 439)
  searchType,       \* useState('flight')            (line 440)
  loading,          \* useState(true)                (lines 104, 441)
  usingMockData,    \* useState(false)               (line 105)
  phase,            \* position of React's cycle: "render", "effects", "idle"
  mountPending,     \* the [] effect (lines 152-157, 465-479) has not run yet
  depsChanged,      \* a dependency of the handleSearch effect was set since it last ran
  mounted,          \* the component has not been torn down
  timer,            \* the setInterval of the [] effect is active
  inflight,         \* fetchFlights calls awaiting axios.get (their start numbers)
  started,          \* number of fetchFlights calls started so far
  ticks,            \* number of perturbation ticks applied so far
  lastResponse,     \* the axios.get result fetchFlights last handled, and its call
  seed,             \* the random stream Math.random follows in this run
  calls,            \* number of Math.random() calls made so far
  fault             \* where an exception escaped to, or "none"

vars == <<variant, flights, filteredFlights, airports, filteredAirports, selectedFlight,
          selectedAirport, error, searchTerm, searchType, loading, usingMockData,
          phase, mountPending, depsChanged, mounted, timer, inflight,
          started, ticks, lastResponse, seed, calls, fault>>

(***************************************************************************)
(* Bounds of the model.                                                    *)
(***************************************************************************)
NSeeds == 2        \* random streams Math.random may follow
MaxFetches == 2    \* fetchFlights calls started in one run
MaxTicks == 2      \* perturbation ticks in one run
MaxClick == 1      \* markers (by position in the rendered list) a click may hit

(***************************************************************************)
(* JavaScript values.                                                      *)
(***************************************************************************)
Null == [t |-> "null"]
Str(s) == [t |-> "str", v |-> s]
Num(n) == [t |-> "num", v |-> n]
Bool(b) == [t |-> "bool", v |-> b]

\* Numbers: one unit is 1/Unit; a Math.random() value is n/RandDen, 0 <= n < RandDen.
RandDen == 16 * 16 * 16
Unit == RandDen * 10
Fix(n) == n * Unit

\* ToBoolean of a tagged value, as `a && b`, `a || b` and `a ? b : c` use it.
Truthy(x) ==
  CASE x.t = "null" -> FALSE
    [] x.t = "str" -> Len(x.v) > 0
    [] x.t = "num" -> x.v # 0
    [] x.t = "bool" -> x.v

(***************************************************************************)
(* Strings: String.prototype.trim, toLowerCase, toUpperCase, includes.     *)
(***************************************************************************)
\* WhiteSpace and LineTerminator code units, which trim() strips.
WhiteSpace == {9, 10, 11, 12, 13, 32, 160, 5760, 8232, 8233, 8239, 8287, 12288, 65279}
                \cup (8192..8202)

RECURSIVE TrimStart(_)
TrimStart(s) ==
  IF s # <<>> /\ Head(s) \in WhiteSpace THEN TrimStart(Tail(s)) ELSE s

RECURSIVE TrimEnd(_)
TrimEnd(s) ==
  IF s # <<>> /\ s[Len(s)] \in WhiteSpace THEN TrimEnd(SubSeq(s, 1, Len(s) - 1)) ELSE s

Trim(s) == TrimEnd(TrimStart(s))

\* The lower-case mapping of one code unit (Unicode SpecialCasing included):
\* A-Z and the Latin-1 capitals move by 32, U+0130 becomes "i" + U+0307,
\* the Kelvin sign U+212A becomes "k"; the other units of the model's
\* alphabet (digits, punctuation, lower-case letters) map to themselves.
LowerUnit(c) ==
  CASE c \in 65..90 -> <<c + 32>>
    [] c \in (192..222) \ {215} -> <<c + 32>>
    [] c = 304 -> <<105, 775>>
    [] c = 8490 -> <<107>>
    [] OTHER -> <<c>>

\* The upper-case mapping of one code unit: a-z and the Latin-1 small letters
\* move by 32, U+00DF (sharp s) becomes "SS", U+0131 (dotless i) becomes "I",
\* U+017F (long s) becomes "S", U+00FF becomes U+0178.
UpperUnit(c) ==
  CASE c \in 97..122 -> <<c - 32>>
    [] c \in (224..254) \ {247} -> <<c - 32>>
    [] c = 223 -> <<83, 83>>
    [] c = 255 -> <<376>>
    [] c = 305 -> <<73>>
    [] c = 383 -> <<83>>
    [] OTHER -> <<c>>

RECURSIVE ToLowerCase(_)
ToLowerCase(s) ==
  IF s = <<>> THEN <<>> ELSE LowerUnit(Head(s)) \o ToLowerCase(Tail(s))

RECURSIVE ToUpperCase(_)
ToUpperCase(s) ==
  IF s = <<>> THEN <<>> ELSE UpperUnit(Head(s)) \o ToUpperCase(Tail(s))

\* s.includes(q): q occurs in s as a contiguous run of code units.
Includes(s, q) ==
  \E i \in 0..(Len(s) - Len(q)) : SubSeq(s, i + 1, i + Len(q)) = q

(***************************************************************************)
(* Math.random, Math.floor, number formatting.                             *)
(***************************************************************************)
\* The k-th value (numerator over RandDen) of the random stream s: the
\* streams are a family of fixed pseudo-random sequences.
Rand(s, k) ==
  LET x == (s * 14168 + k * 29637) % 32749
  IN  ((x * x) % 32749) % RandDen

\* Math.floor(Math.random() * n) for the random numerator r.
RandInt(r, n) == (r * n) \div RandDen

\* One digit of a radix-16 or radix-10 rendering.
DigitUnit(d) == IF d < 10 THEN 48 + d ELSE 97 + (d - 10)

\* Number.prototype.toString() of a non-negative integer, radix 10.
RECURSIVE DecString(_)
DecString(n) ==
  IF n < 10 THEN <<DigitUnit(n)>> ELSE Append(DecString(n \div 10), DigitUnit(n % 10))

\* Math.random().toString(16) of r/RandDen: "0" for zero, otherwise "0." and
\* the hexadecimal digits of the fraction without trailing zeros.
HexFraction(r) ==
  LET d1 == r \div 256
      d2 == (r \div 16) % 16
      d3 == r % 16
  IN  IF d3 # 0 THEN <<DigitUnit(d1), DigitUnit(d2), DigitUnit(d3)>>
      ELSE IF d2 # 0 THEN <<DigitUnit(d1), DigitUnit(d2)>>
      ELSE <<DigitUnit(d1)>>

RandomToString16(r) == IF r = 0 THEN <<48>> ELSE <<48, 46>> \o HexFraction(r)

\* String.prototype.substr(start, length).
Substr(s, start, length) ==
  SubSeq(s, start + 1, IF start + length < Len(s) THEN start + length ELSE Len(s))

\* String.fromCharCode(65 + Math.floor(Math.random() * 26)).
RandLetter(r) == 65 + RandInt(r, 26)

(***************************************************************************)
(* The live-source variant, lines 1-330.                                   *)
(***************************************************************************)
countriesLive == <<
  <<85, 83, 65>>,                               \* "USA"
  <<85, 75>>,                                   \* "UK"
  <<70, 114, 97, 110, 99, 101>>,                \* "France"
  <<71, 101, 114, 109, 97, 110, 121>>,          \* "Germany"
  <<74, 97, 112, 97, 110>>,                     \* "Japan"
  <<67, 97, 110, 97, 100, 97>>,                 \* "Canada"
  <<65, 117, 115, 116, 114, 97, 108, 105, 97>>, \* "Australia"
  <<66, 114, 97, 122, 105, 108>>,               \* "Brazil"
  <<67, 104, 105, 110, 97>>,                    \* "China"
  <<73, 110, 100, 105, 97>> >>                  \* "India"

airlinesLive == <<
  <<65, 65, 76>>,   \* "AAL"
  <<66, 65, 87>>,   \* "BAW"
  <<68, 76, 72>>,   \* "DLH"
  <<65, 70, 82>>,   \* "AFR"
  <<85, 65, 76>>,   \* "UAL"
  <<83, 73, 65>>,   \* "SIA"
  <<81, 70, 65>>,   \* "QFA"
  <<74, 65, 76>>,   \* "JAL"
  <<65, 78, 65>>,   \* "ANA"
  <<75, 65, 76>> >> \* "KAL"

\* The values Date.now() may return, in milliseconds.
Clock == {60500}

\* The i-th record (i from 0) that generateMockFlights pushes: fourteen
\* Math.random() calls per record, in the order of the object literal, after
\* the `used` calls made before.
MockFlightLive(s, used, now, i) ==
  LET R(j) == Rand(s, used + 14 * i + j)
  IN  [icao24 |-> Str(Substr(RandomToString16(R(1)), 2, 6)),
       callsign |-> Str(airlinesLive[RandInt(R(2), Len(airlinesLive)) + 1]
                        \o DecString(RandInt(R(3), 9000) + 1000)),
       origin_country |-> Str(countriesLive[RandInt(R(4), Len(countriesLive)) + 1]),
       time_position |-> Num(Fix(now \div 1000)),
       last_contact |-> Num(Fix(now \div 1000)),
       longitude |-> Num(R(5) * 10 * 360 - Fix(180)),
       latitude |-> Num(R(6) * 10 * 180 - Fix(90)),
       baro_altitude |-> Num(R(7) * 10 * 10000 + Fix(1000)),
       on_ground |-> Bool(R(8) * 10 > 9 * RandDen),
       velocity |-> Num(R(9) * 10 * 300 + Fix(400)),
       true_track |-> Num(R(10) * 10 * 360),
       vertical_rate |-> Num((R(11) * 10 - Unit \div 2) * 20),
       sensors |-> Null,
       geo_altitude |-> Num(R(12) * 10 * 10000 + Fix(1000)),
       squawk |-> Str(DecString(RandInt(R(13), 9000) + 1000)),
       spi |-> Bool(FALSE),
       position_source |-> Num(Fix(RandInt(R(14), 3)))]

generateMockFlightsLive(count, s, used, now) ==
  [i \in 1..count |-> MockFlightLive(s, used, now, i - 1)]

\* The count fetchFlights passes to generateMockFlights.
MockCountLive == 100

\* generateMockFlights(100) for every random stream, position in it and clock
\* value, computed once.
mockFlightsLive ==
  [s \in 1..NSeeds, used \in {14 * MockCountLive * n : n \in 0..(MaxFetches - 1)},
   now \in Clock |-> generateMockFlightsLive(MockCountLive, s, used, now)]

\* The result of an expression that may throw.
Threw == [ok |-> FALSE]
Returned(x) == [ok |-> TRUE, val |-> x]

\* state[1]?.trim() || "N/A": absent gives "N/A", text is trimmed (blank gives
\* "N/A"), any other value has no trim method and throws.
Callsign(x) ==
  CASE x.t = "null" -> Returned(Str(<<78, 47, 65>>))
    [] x.t = "str" ->
         Returned(Str(IF Trim(x.v) = <<>> THEN <<78, 47, 65>> ELSE Trim(x.v)))
    [] OTHER -> Threw

\* A map callback that reads longitude and latitude from each other's position.
MapStateSwapped(state) ==
  IF state.t # "arr" \/ ~Callsign(state.v[2]).ok THEN Threw
  ELSE LET s == state.v
       IN  Returned([icao24 |-> s[1],
                     callsign |-> Callsign(s[2]).val,
                     origin_country |-> s[3],
                     time_position |-> s[4],
                     last_contact |-> s[5],
                     longitude |-> s[7],
                     latitude |-> s[6],
                     baro_altitude |-> s[8],
                     on_ground |-> s[9],
                     velocity |-> s[10],
                     true_track |-> s[11],
                     vertical_rate |-> s[12],
                     sensors |-> s[13],
                     geo_altitude |-> s[14],
                     squawk |-> s[15],
                     spi |-> s[16],
                     position_source |-> s[17]])

\* The callback of response.data.states.map: element `state` of the array, an
\* array of positions 0..16 (tuple indices 1..17); reading a position of null throws.
MapState(state) ==
  IF state.t # "arr" \/ ~Callsign(state.v[2]).ok THEN Threw
  ELSE LET s == state.v
       IN  Returned([icao24 |-> s[1],
                     callsign |-> Callsign(s[2]).val,
                     origin_country |-> s[3],
                     time_position |-> s[4],
                     last_contact |-> s[5],
                     longitude |-> s[6],
                     latitude |-> s[7],
                     baro_altitude |-> s[8],
                     on_ground |-> s[9],
                     velocity |-> s[10],
                     true_track |-> s[11],
                     vertical_rate |-> s[12],
                     sensors |-> s[13],
                     geo_altitude |-> s[14],
                     squawk |-> s[15],
                     spi |-> s[16],
                     position_source |-> s[17]])

\* What axios.get may produce: a rejection, or a response with its data.
Reject == [kind |-> "reject"]
Resolve(data) == [kind |-> "resolve", data |-> data]
Arr(elems) == [t |-> "arr", v |-> elems]
Obj(states) == [t |-> "obj", states |-> states]

\* The try block of fetchFlights after the await: the mapped list, or a throw
\* (the rejection, the explicit "No flight data available", or a throwing map).
TryBlock(response) ==
  IF response.kind = "reject" THEN Threw
  ELSE IF response.data.t # "obj" \/ response.data.states.t # "arr" THEN Threw
  ELSE LET elems == response.data.states.v
       IN  IF \E i \in 1..Len(elems) : ~MapState(elems[i]).ok THEN Threw
           ELSE Returned([i \in 1..Len(elems) |-> MapState(elems[i]).val])

FetchErrorMessage == "Failed to fetch real flight data. Using mock data instead."

\* A catch block that forgets setError(...).
CatchBlockNoError(s, used, now) ==
  LET mockFlights == mockFlightsLive[s, used, now]
  IN  [flights |-> mockFlights,
       filteredFlights |-> mockFlights,
       error |-> Null,
       usingMockData |-> TRUE,
       calls |-> used + 14 * MockCountLive,
       raised |-> FALSE]

\* A catch block that forgets setUsingMockData(true).
CatchBlockNoFlag(s, used, now) ==
  LET mockFlights == mockFlightsLive[s, used, now]
  IN  [flights |-> mockFlights,
       filteredFlights |-> mockFlights,
       error |-> Str(FetchErrorMessage),
       usingMockData |-> FALSE,
       calls |-> used + 14 * MockCountLive,
       raised |-> FALSE]

\* The catch block of fetchFlights: the values it passes to the four setters.
CatchBlock(s, used, now) ==
  LET mockFlights == mockFlightsLive[s, used, now]
  IN  [flights |-> mockFlights,
       filteredFlights |-> mockFlights,
       error |-> Str(FetchErrorMessage),
       usingMockData |-> TRUE,
       calls |-> used + 14 * MockCountLive,
       raised |-> FALSE]

\* fetchFlights from the resolution of axios.get on: what it sets, and whether
\* an exception leaves it (raised).
fetchFlights(response, s, used, now) ==
  LET r == TryBlock(response)
  IN  IF r.ok
      THEN [flights |-> r.val,
            filteredFlights |-> r.val,
            error |-> Null,
            usingMockData |-> FALSE,
            calls |-> used,
            raised |-> FALSE]
      ELSE CatchBlock(s, used, now)

\* A handleSearch that compares the query with "" without trimming it.
handleSearchLiveNoTrim(fl, term) ==
  IF term = <<>> THEN Returned(fl)
  ELSE LET searchTermLower == ToLowerCase(term)
           Test(flight) ==
             \/ Includes(ToLowerCase(flight.icao24.v), searchTermLower)
             \/ /\ Truthy(flight.callsign)
                /\ Includes(ToLowerCase(flight.callsign.v), searchTermLower)
       IN  IF \E i \in 1..Len(fl) : fl[i].icao24.t # "str" THEN Threw
           ELSE Returned(SelectSeq(fl, Test))

\* handleSearch of the live variant on the closure values (flights, searchTerm):
\* the list it passes to setFilteredFlights, or a throw when toLowerCase is
\* read from an icao24 that is not a string.
handleSearchLive(fl, term) ==
  IF Trim(term) = <<>> THEN Returned(fl)
  ELSE LET searchTermLower == ToLowerCase(term)
           Test(flight) ==
             \/ Includes(ToLowerCase(flight.icao24.v), searchTermLower)
             \/ /\ Truthy(flight.callsign)
                /\ Includes(ToLowerCase(flight.callsign.v), searchTermLower)
       IN  IF \E i \in 1..Len(fl) : fl[i].icao24.t # "str" THEN Threw
           ELSE Returned(SelectSeq(fl, Test))

\* animatePlanes (useMemo): every filtered flight with its icon, whose rotation
\* is flight.true_track || 0.
animatePlanesLive(filtered) ==
  [i \in 1..Len(filtered) |->
     filtered[i] @@
       [icon |-> IF Truthy(filtered[i].true_track) THEN filtered[i].true_track.v ELSE 0]]

\* flight.latitude && flight.longitude: the record gets a <Marker>.
HasMarkerLive(flight) == Truthy(flight.latitude) /\ Truthy(flight.longitude)

(***************************************************************************)
(* The dual-mode variant, lines 332-655.                                   *)
(***************************************************************************)
airlinesDual == <<
  <<65, 65>>,   \* "AA"
  <<85, 65>>,   \* "UA"
  <<68, 76>>,   \* "DL"
  <<76, 72>>,   \* "LH"
  <<66, 65>>,   \* "BA"
  <<65, 70>>,   \* "AF"
  <<75, 76>>,   \* "KL"
  <<69, 75>>,   \* "EK"
  <<81, 82>>,   \* "QR"
  <<83, 81>> >> \* "SQ"

statuses == <<"scheduled", "active", "landed", "delayed", "cancelled">>

countriesDual == <<"USA", "UK", "Germany", "France", "Japan", "Australia",
                   "Canada", "Brazil", "India", "China">>

\* The i-th record (i from 0) that generateMockFlights pushes: fifteen
\* Math.random() calls per record, in the order of the object literal.
MockFlightDual(s, i) ==
  LET R(j) == Rand(s, 15 * i + j)
      airline == airlinesDual[RandInt(R(1), Len(airlinesDual)) + 1]
  IN  [flight_icao |-> airline \o DecString(1000 + RandInt(R(2), 9000)),
       flight_iata |-> airline \o DecString(100 + RandInt(R(3), 900)),
       dep_iata |-> <<RandLetter(R(4)), RandLetter(R(5)), RandLetter(R(6))>>,
       arr_iata |-> <<RandLetter(R(7)), RandLetter(R(8)), RandLetter(R(9))>>,
       airline_icao |-> Append(airline, 65),
       airline_iata |-> airline,
       latitude |-> R(10) * 10 * 180 - Fix(90),
       longitude |-> R(11) * 10 * 360 - Fix(180),
       altitude |-> Fix(RandInt(R(12), 40000) + 5000),
       speed |-> Fix(RandInt(R(13), 500) + 300),
       status |-> statuses[RandInt(R(14), Len(statuses)) + 1],
       direction |-> Fix(RandInt(R(15), 360))]

generateMockFlightsDual(count, s) ==
  [i \in 1..count |-> MockFlightDual(s, i - 1)]

\* Number.prototype.toFixed(6) of m/RandDen, as the number of millionths it
\* prints: the nearest one, a tie going away from zero.
ToFixed6(m) ==
  LET Pos(a) == (a \div RandDen) * 1000000
                  + (((a % RandDen) * 15625) * 2 + 64) \div 128
  IN  IF m < 0 THEN -Pos(-m) ELSE Pos(m)

\* The i-th record (i from 0) that generateMockAirports pushes, its six
\* Math.random() calls following the `used` calls generateMockFlights made.
MockAirport(s, used, i) ==
  LET R(j) == Rand(s, used + 6 * i + j)
      iataCode == <<RandLetter(R(1)), RandLetter(R(2)), RandLetter(R(3))>>
  IN  [airport_name |-> iataCode \o <<32, 73, 110, 116, 101, 114, 110, 97, 116, 105,
                                      111, 110, 97, 108, 32, 65, 105, 114, 112, 111,
                                      114, 116>>,   \* " International Airport"
       iata_code |-> iataCode,
       icao_code |-> <<75>> \o iataCode,
       latitude |-> ToFixed6(R(4) * 180 - 90 * RandDen),
       longitude |-> ToFixed6(R(5) * 360 - 180 * RandDen),
       country_name |-> countriesDual[RandInt(R(6), Len(countriesDual)) + 1],
       city_iata_code |-> SubSeq(iataCode, 1, 2)]

generateMockAirports(count, s, used) ==
  [i \in 1..count |-> MockAirport(s, used, i - 1)]

\* The counts fetchMockData passes.
MockCountDual == 100
MockAirportCount == 50

\* The try block of fetchMockData: the values it passes to the setters (the
\* generators cannot throw, so its catch block never runs), computed once for
\* every random stream (the component calls it once, with no call made before).
fetchMockData ==
  [s \in 1..NSeeds |->
     LET mockFlights == generateMockFlightsDual(MockCountDual, s)
         mockAirports == generateMockAirports(MockAirportCount, s, 15 * MockCountDual)
     IN  [flights |-> mockFlights,
          filteredFlights |-> mockFlights,
          airports |-> mockAirports,
          filteredAirports |-> <<>>,
          error |-> Null,
          loading |-> FALSE,
          calls |-> 15 * MockCountDual + 6 * MockAirportCount]]

Max(a, b) == IF a > b THEN a ELSE b
Min(a, b) == IF a < b THEN a ELSE b

\* The % operator: the remainder has the sign of the dividend.
JsRem(a, b) == IF a >= 0 THEN a % b ELSE -((-a) % b)

\* A perturbation that does not clamp altitude and speed.
PerturbNoClamp(flight, s, used, i) ==
  LET R(j) == Rand(s, used + 5 * i + j)
      Centered(j) == R(j) * 10 - Unit \div 2
  IN  [flight EXCEPT
         !.latitude = flight.latitude + Centered(1) \div 10,
         !.longitude = flight.longitude + Centered(2) \div 10,
         !.altitude = flight.altitude + Centered(3) * 1000,
         !.speed = flight.speed + Centered(4) * 50,
         !.direction = JsRem(flight.direction + Centered(5) * 10 + Fix(360), Fix(360))]

\* The callback of prevFlights.map in the interval (lines 468-475) on the i-th
\* flight (i from 0): five Math.random() calls after the `used` calls made before.
Perturb(flight, s, used, i) ==
  LET R(j) == Rand(s, used + 5 * i + j)
      Centered(j) == R(j) * 10 - Unit \div 2      \* Math.random() - 0.5
  IN  [flight EXCEPT
         !.latitude = flight.latitude + Centered(1) \div 10,
         !.longitude = flight.longitude + Centered(2) \div 10,
         !.altitude = Max(Fix(5000), Min(Fix(40000), flight.altitude + Centered(3) * 1000)),
         !.speed = Max(Fix(300), Min(Fix(800), flight.speed + Centered(4) * 50)),
         !.direction = JsRem(flight.direction + Centered(5) * 10 + Fix(360), Fix(360))]

\* A tick that hands the perturbed records back in reverse order.
PerturbAllReversed(prevFlights, s, used) ==
  [i \in 1..Len(prevFlights) |->
     Perturb(prevFlights[Len(prevFlights) + 1 - i], s, used, Len(prevFlights) - i)]

\* prevFlights.map(...) of one perturbation tick.
PerturbAll(prevFlights, s, used) ==
  [i \in 1..Len(prevFlights) |-> Perturb(prevFlights[i], s, used, i - 1)]

\* A handleSearch whose airport branch leaves the flight subset as the list.
handleSearchDualKeepsFlights(fl, ap, term, type) ==
  IF Trim(term) = <<>> THEN [filteredFlights |-> fl, filteredAirports |-> <<>>]
  ELSE LET searchTermLower == ToLowerCase(term)
           TestFlight(flight) ==
             \/ Includes(ToLowerCase(flight.flight_icao), searchTermLower)
             \/ Includes(ToLowerCase(flight.flight_iata), searchTermLower)
           TestAirport(airport) ==
             \/ Includes(ToLowerCase(airport.airport_name), searchTermLower)
             \/ Includes(ToLowerCase(airport.iata_code), searchTermLower)
             \/ Includes(ToLowerCase(airport.icao_code), searchTermLower)
       IN  IF type = "flight"
           THEN [filteredFlights |-> SelectSeq(fl, TestFlight), filteredAirports |-> <<>>]
           ELSE [filteredFlights |-> fl, filteredAirports |-> SelectSeq(ap, TestAirport)]

\* handleSearch of the dual-mode variant on the closure values: the lists it
\* passes to setFilteredFlights and setFilteredAirports.
handleSearchDual(fl, ap, term, type) ==
  IF Trim(term) = <<>> THEN [filteredFlights |-> fl, filteredAirports |-> <<>>]
  ELSE LET searchTermLower == ToLowerCase(term)
           TestFlight(flight) ==
             \/ Includes(ToLowerCase(flight.flight_icao), searchTermLower)
             \/ Includes(ToLowerCase(flight.flight_iata), searchTermLower)
           TestAirport(airport) ==
             \/ Includes(ToLowerCase(airport.airport_name), searchTermLower)
             \/ Includes(ToLowerCase(airport.iata_code), searchTermLower)
             \/ Includes(ToLowerCase(airport.icao_code), searchTermLower)
       IN  IF type = "flight"
           THEN [filteredFlights |-> SelectSeq(fl, TestFlight), filteredAirports |-> <<>>]
           ELSE [filteredFlights |-> <<>>, filteredAirports |-> SelectSeq(ap, TestAirport)]

\* animatePlanes (useMemo) of the dual-mode variant: the icon's rotation is
\* flight.direction.
animatePlanesDual(filtered) ==
  [i \in 1..Len(filtered) |-> filtered[i] @@ [icon |-> filtered[i].direction]]

(***************************************************************************)
(* Inputs of the live variant: the payloads axios.get may deliver.         *)
(***************************************************************************)
\* icao24 "4ca1", callsign "DLH12  " (padded, as the live source sends it).
StateDLH ==
  Arr(<<Str(<<52, 99, 97, 49>>), Str(<<68, 76, 72, 49, 50, 32, 32>>),
        Str(<<71, 101, 114, 109, 97, 110, 121>>), Num(Fix(60)), Num(Fix(61)),
        Num(Fix(8)), Num(Fix(50)), Num(Fix(9000)), Bool(FALSE), Num(Fix(230)),
        Num(Fix(90)), Num(0), Null, Num(Fix(9100)), Str(<<55, 53, 48, 48>>),
        Bool(FALSE), Num(0)>>)

\* icao24 "ab12", callsign "SIA7", no position (longitude and latitude null).
StateSIA ==
  Arr(<<Str(<<97, 98, 49, 50>>), Str(<<83, 73, 65, 55>>),
        Str(<<74, 97, 112, 97, 110>>), Null, Num(Fix(61)),
        Null, Null, Null, Bool(FALSE), Num(Fix(250)),
        Null, Null, Null, Null, Null, Bool(FALSE), Num(0)>>)

\* No icao24 and no callsign.
StateNoId ==
  Arr(<<Null, Null, Str(<<85, 75>>), Num(Fix(60)), Num(Fix(61)),
        Num(Fix(-1)), Num(Fix(51)), Num(Fix(3000)), Bool(FALSE), Num(Fix(120)),
        Num(Fix(10)), Num(0), Null, Num(Fix(3100)), Null, Bool(FALSE), Num(0)>>)

\* icao24 "0a1f", callsign "AA456", on the ground, track 0.
StateAA ==
  Arr(<<Str(<<48, 97, 49, 102>>), Str(<<65, 65, 52, 53, 54>>),
        Str(<<85, 83, 65>>), Num(Fix(60)), Num(Fix(61)),
        Num(Fix(-74)), Num(Fix(40)), Null, Bool(TRUE), Num(0),
        Num(0), Num(0), Null, Null, Null, Bool(FALSE), Num(0)>>)

\* The `states` arrays delivered: none, two well-formed records, a record
\* without position before one without identity, and an array holding null
\* instead of a record.
Payloads == {<<>>, <<StateDLH, StateAA>>, <<StateSIA, StateNoId>>, <<Null>>}

Responses == {Reject, Resolve(Obj(Null))} \cup {Resolve(Obj(Arr(p))) : p \in Payloads}

\* The search terms typed: "", " ", "D", "a" and U+0131 (dotless i).
Queries == {<<>>, <<32>>, <<68>>, <<97>>, <<305>>}

(***************************************************************************)
(* React's cycle.  A handler sets state and leaves a render pending; the   *)
(* render observes the state as it is; the effects whose dependencies were *)
(* set run after it, on the values that render observed.  Handlers run     *)
(* when no render or effect is pending (React flushes them first), and a   *)
(* handler's setter calls are applied together (automatic batching).       *)
(* A value used several times by an action is bound by \E x \in {e}, which  *)
(* evaluates e once.                                                       *)
(***************************************************************************)
NoResponse == [response |-> [kind |-> "none"], call |-> 0]

Init ==
  /\ variant \in {"live", "dual"}
  /\ flights = <<>>
  /\ filteredFlights = <<>>
  /\ airports = <<>>
  /\ filteredAirports = <<>>
  /\ selectedFlight = Null
  /\ selectedAirport = Null
  /\ error = Null
  /\ searchTerm = <<>>
  /\ searchType = "flight"
  /\ loading = TRUE
  /\ usingMockData = FALSE
  /\ phase = "render"
  /\ mountPending = TRUE
  /\ depsChanged = FALSE
  /\ mounted = TRUE
  /\ timer = FALSE
  /\ inflight = {}
  /\ started = 0
  /\ ticks = 0
  /\ lastResponse = NoResponse
  /\ seed \in 1..NSeeds
  /\ calls = 0
  /\ fault = "none"

Idle == mounted /\ phase = "idle"

\* The component function runs: the effects to run after it are those whose
\* dependencies changed (all of them on the first render).
Render ==
  /\ mounted
  /\ phase = "render"
  /\ phase' = IF mountPending \/ depsChanged THEN "effects" ELSE "idle"
  /\ UNCHANGED <<variant, seed, calls>>
  /\ UNCHANGED <<flights, filteredFlights, airports, filteredAirports, selectedFlight,
                 selectedAirport, error, searchTerm, searchType, loading,
                 usingMockData, mountPending, depsChanged, mounted, timer, inflight,
                 started, ticks, lastResponse, fault>>

\* The effects of the live variant: on mount, fetchFlights() up to its await
\* and setInterval (lines 152-157); then handleSearch() (lines 175-177).  An
\* exception thrown by an effect is not caught by any error boundary: React
\* unmounts the tree, which runs the cleanup clearInterval.
RunEffectsLive ==
  /\ variant = "live"
  /\ mounted
  /\ phase = "effects"
  /\ \E hs \in {handleSearchLive(flights, searchTerm)} :
     \E newFiltered \in {IF hs.ok THEN hs.val ELSE filteredFlights} :
         /\ filteredFlights' = newFiltered
         /\ loading' = IF mountPending THEN TRUE ELSE loading
         /\ inflight' = IF mountPending THEN inflight \cup {started + 1} ELSE inflight
         /\ started' = IF mountPending THEN started + 1 ELSE started
         /\ fault' = IF hs.ok THEN fault ELSE "effect"
         /\ mounted' = hs.ok
         /\ timer' = IF hs.ok THEN (timer \/ mountPending) ELSE FALSE
         /\ phase' = IF hs.ok /\ (newFiltered # filteredFlights \/ (mountPending /\ ~loading))
                     THEN "render" ELSE "idle"
  /\ mountPending' = FALSE
  /\ depsChanged' = FALSE
  /\ UNCHANGED <<variant, seed, calls>>
  /\ UNCHANGED <<flights, airports, filteredAirports, selectedFlight, selectedAirport,
                 error, searchTerm, searchType, usingMockData, ticks, lastResponse>>

\* An onChange of the search input that also drops the selected flight.
ChangeSearchTermClearsSelection ==
  /\ Idle
  /\ \E q \in Queries :
       /\ q # searchTerm
       /\ searchTerm' = q
  /\ selectedFlight' = Null
  /\ depsChanged' = TRUE
  /\ phase' = "render"
  /\ UNCHANGED <<variant, seed, calls>>
  /\ UNCHANGED <<flights, filteredFlights, airports, filteredAirports,
                 selectedAirport, error, searchType, loading, usingMockData,
                 mountPending, mounted, timer, inflight, started, ticks,
                 lastResponse, fault>>

\* onChange of the search input: setSearchTerm(e.target.value).
ChangeSearchTerm ==
  /\ Idle
  /\ \E q \in Queries :
       /\ q # searchTerm
       /\ searchTerm' = q
  /\ depsChanged' = TRUE
  /\ phase' = "render"
  /\ UNCHANGED <<variant, seed, calls>>
  /\ UNCHANGED <<flights, filteredFlights, airports, filteredAirports, selectedFlight,
                 selectedAirport, error, searchType, loading, usingMockData,
                 mountPending, mounted, timer, inflight, started, ticks,
                 lastResponse, fault>>

\* onClick of the search button: handleSearch() of the last render.  An
\* exception leaves the click handler; the tree stays mounted.
ClickSearchLive ==
  /\ variant = "live"
  /\ Idle
  /\ \E hs \in {handleSearchLive(flights, searchTerm)} :
     \E newFiltered \in {IF hs.ok THEN hs.val ELSE filteredFlights} :
         /\ filteredFlights' = newFiltered
         /\ fault' = IF hs.ok THEN fault ELSE "handler"
         /\ phase' = IF newFiltered # filteredFlights THEN "render" ELSE "idle"
  /\ UNCHANGED <<variant, seed, calls>>
  /\ UNCHANGED <<flights, airports, filteredAirports, selectedFlight, selectedAirport,
                 error, searchTerm, searchType, loading, usingMockData, mountPending,
                 depsChanged, mounted, timer, inflight, started, ticks, lastResponse>>

\* fetchFlights up to its await: setLoading(true) (nothing on an unmounted
\* component) and the request is sent.
StartFetch ==
  /\ variant = "live"
  /\ started < MaxFetches
  /\ loading' = IF mounted THEN TRUE ELSE loading
  /\ inflight' = inflight \cup {started + 1}
  /\ started' = started + 1
  /\ phase' = IF mounted /\ ~loading THEN "render" ELSE phase
  /\ UNCHANGED <<variant, seed, calls>>
  /\ UNCHANGED <<flights, filteredFlights, airports, filteredAirports, selectedFlight,
                 selectedAirport, error, searchTerm, searchType, usingMockData,
                 mountPending, depsChanged, mounted, timer, ticks, lastResponse, fault>>

\* The 60-second interval, as long as it is not cleared, fires: fetchFlights().
RefreshTick == timer /\ (Idle \/ ~mounted) /\ StartFetch

\* onClick of "Retry with real data", shown when loading is false and error is set.
ClickRetry == Idle /\ ~loading /\ Truthy(error) /\ StartFetch

\* A completion of fetchFlights that publishes nothing when a refresh started
\* later has already completed.
FetchResolveLatestOnly ==
  /\ variant = "live"
  /\ phase = "idle" \/ ~mounted
  /\ \E call \in inflight, response \in Responses, now \in Clock :
       \E o \in {IF call < lastResponse.call
                  THEN [flights |-> flights, filteredFlights |-> filteredFlights,
                        error |-> error, usingMockData |-> usingMockData,
                        calls |-> calls, raised |-> FALSE]
                  ELSE fetchFlights(response, seed, calls, now)} :
           /\ inflight' = inflight \ {call}
           /\ calls' = o.calls
           /\ IF mounted
              THEN /\ flights' = o.flights
                   /\ filteredFlights' = o.filteredFlights
                   /\ error' = o.error
                   /\ usingMockData' = o.usingMockData
                   /\ loading' = FALSE
                   /\ lastResponse' = [response |-> response, call |-> call]
                   /\ fault' = IF o.raised THEN "fetchFlights" ELSE fault
                   /\ depsChanged' = TRUE
                   /\ phase' = "render"
              ELSE UNCHANGED <<flights, filteredFlights, error, usingMockData, loading,
                               lastResponse, fault, depsChanged, phase>>
  /\ UNCHANGED <<airports, filteredAirports, selectedFlight, selectedAirport,
                 searchTerm, searchType, mountPending, mounted, timer, started, ticks,
                 variant, seed>>

\* A completion of fetchFlights that keeps the synthetic list once it is shown.
FetchResolveSticky ==
  /\ variant = "live"
  /\ phase = "idle" \/ ~mounted
  /\ \E call \in inflight, response \in Responses, now \in Clock :
       \E o \in {IF usingMockData
                  THEN [flights |-> flights, filteredFlights |-> filteredFlights,
                        error |-> error, usingMockData |-> TRUE, calls |-> calls,
                        raised |-> FALSE]
                  ELSE fetchFlights(response, seed, calls, now)} :
           /\ inflight' = inflight \ {call}
           /\ calls' = o.calls
           /\ IF mounted
              THEN /\ flights' = o.flights
                   /\ filteredFlights' = o.filteredFlights
                   /\ error' = o.error
                   /\ usingMockData' = o.usingMockData
                   /\ loading' = FALSE
                   /\ lastResponse' = [response |-> response, call |-> call]
                   /\ fault' = IF o.raised THEN "fetchFlights" ELSE fault
                   /\ depsChanged' = TRUE
                   /\ phase' = "render"
              ELSE UNCHANGED <<flights, filteredFlights, error, usingMockData, loading,
                               lastResponse, fault, depsChanged, phase>>
  /\ UNCHANGED <<airports, filteredAirports, selectedFlight, selectedAirport,
                 searchTerm, searchType, mountPending, mounted, timer, started, ticks,
                 variant, seed>>

\* A completion of fetchFlights that also drops the selection.
FetchResolveClearsSelection ==
  /\ variant = "live"
  /\ phase = "idle" \/ ~mounted
  /\ \E call \in inflight, response \in Responses, now \in Clock :
       \E o \in {fetchFlights(response, seed, calls, now)} :
           /\ inflight' = inflight \ {call}
           /\ calls' = o.calls
           /\ IF mounted
              THEN /\ flights' = o.flights
                   /\ filteredFlights' = o.filteredFlights
                   /\ error' = o.error
                   /\ usingMockData' = o.usingMockData
                   /\ loading' = FALSE
                   /\ lastResponse' = [response |-> response, call |-> call]
                   /\ fault' = IF o.raised THEN "fetchFlights" ELSE fault
                   /\ depsChanged' = TRUE
                   /\ phase' = "render"
                   /\ selectedFlight' = Null
              ELSE UNCHANGED <<flights, filteredFlights, error, usingMockData, loading,
                               lastResponse, fault, depsChanged, phase, selectedFlight>>
  /\ UNCHANGED <<airports, filteredAirports, selectedAirport,
                 searchTerm, searchType, mountPending, mounted, timer, started, ticks,
                 variant, seed>>

\* axios.get of one outstanding call settles and fetchFlights runs to its end:
\* the try or the catch block's setters, then setLoading(false).  The setters of
\* an unmounted component do nothing.
FetchResolve ==
  /\ variant = "live"
  /\ phase = "idle" \/ ~mounted
  /\ \E call \in inflight, response \in Responses, now \in Clock :
       \E o \in {fetchFlights(response, seed, calls, now)} :
           /\ inflight' = inflight \ {call}
           /\ calls' = o.calls
           /\ IF mounted
              THEN /\ flights' = o.flights
                   /\ filteredFlights' = o.filteredFlights
                   /\ error' = o.error
                   /\ usingMockData' = o.usingMockData
                   /\ loading' = FALSE
                   /\ lastResponse' = [response |-> response, call |-> call]
                   /\ fault' = IF o.raised THEN "fetchFlights" ELSE fault
                   /\ depsChanged' = TRUE
                   /\ phase' = "render"
              ELSE UNCHANGED <<flights, filteredFlights, error, usingMockData, loading,
                               lastResponse, fault, depsChanged, phase>>
  /\ UNCHANGED <<airports, filteredAirports, selectedFlight, selectedAirport,
                 searchTerm, searchType, mountPending, mounted, timer, started, ticks,
                 variant, seed>>

\* click on the <Marker> of the i-th rendered plane: setSelectedFlight(flight).
ClickMarkerLive ==
  /\ variant = "live"
  /\ Idle
  /\ \E i \in 1..MaxClick :
       /\ i <= Len(filteredFlights)
       /\ HasMarkerLive(filteredFlights[i])
       /\ selectedFlight' = animatePlanesLive(filteredFlights)[i]
  /\ phase' = IF selectedFlight' # selectedFlight THEN "render" ELSE "idle"
  /\ UNCHANGED <<variant, seed, calls>>
  /\ UNCHANGED <<flights, filteredFlights, airports, filteredAirports, selectedAirport,
                 error, searchTerm, searchType, loading, usingMockData, mountPending,
                 depsChanged, mounted, timer, inflight, started, ticks, lastResponse,
                 fault>>

\* A teardown whose cleanup does not clear the interval.
UnmountKeepsTimer ==
  /\ Idle
  /\ mounted' = FALSE
  /\ UNCHANGED <<variant, seed, calls>>
  /\ UNCHANGED <<flights, filteredFlights, airports, filteredAirports, selectedFlight,
                 selectedAirport, error, searchTerm, searchType, loading,
                 usingMockData, phase, mountPending, depsChanged, inflight, started,
                 ticks, lastResponse, fault, timer>>

\* The view is torn down: the cleanup of the [] effect clears the interval.
Unmount ==
  /\ Idle
  /\ mounted' = FALSE
  /\ timer' = FALSE
  /\ UNCHANGED <<variant, seed, calls>>
  /\ UNCHANGED <<flights, filteredFlights, airports, filteredAirports, selectedFlight,
                 selectedAirport, error, searchTerm, searchType, loading,
                 usingMockData, phase, mountPending, depsChanged, inflight, started,
                 ticks, lastResponse, fault>>

NextLive ==
  \/ Render
  \/ RunEffectsLive
  \/ ChangeSearchTerm
  \/ ClickSearchLive
  \/ RefreshTick
  \/ ClickRetry
  \/ FetchResolve
  \/ ClickMarkerLive
  \/ Unmount

InitLive == Init /\ variant = "live"

SpecLive == InitLive /\ [][NextLive]_vars

(***************************************************************************)
(* The dual-mode component.                                                *)
(***************************************************************************)
\* The effects of the dual-mode variant.  On mount: fetchMockData() and
\* setInterval (lines 465-479), then handleSearch() (lines 507-509) on the
\* values of the first render, whose setFilteredFlights and setFilteredAirports
\* come after those of fetchMockData in the same batch and so decide the two
\* subsets.  Later: handleSearch() alone.
RunEffectsDual ==
  /\ variant = "dual"
  /\ mounted
  /\ phase = "effects"
  /\ \E hs \in {handleSearchDual(flights, airports, searchTerm, searchType)} :
       /\ filteredFlights' = hs.filteredFlights
       /\ filteredAirports' = hs.filteredAirports
       /\ IF mountPending
          THEN /\ flights' = fetchMockData[seed].flights
               /\ airports' = fetchMockData[seed].airports
               /\ error' = fetchMockData[seed].error
               /\ loading' = fetchMockData[seed].loading
               /\ calls' = fetchMockData[seed].calls
               /\ timer' = TRUE
               /\ depsChanged' = TRUE
               /\ phase' = "render"
          ELSE /\ depsChanged' = FALSE
               /\ phase' = IF hs.filteredFlights # filteredFlights
                              \/ hs.filteredAirports # filteredAirports
                           THEN "render" ELSE "idle"
               /\ UNCHANGED <<flights, airports, error, loading, timer, calls>>
  /\ mountPending' = FALSE
  /\ UNCHANGED <<selectedFlight, selectedAirport, searchTerm, searchType,
                 usingMockData, mounted, inflight, started, ticks, lastResponse,
                 variant, seed, fault>>

\* onChange of the mode <select>: setSearchType(e.target.value).
ChangeSearchType ==
  /\ variant = "dual"
  /\ Idle
  /\ \E type \in {"flight", "airport"} :
       /\ type # searchType
       /\ searchType' = type
  /\ depsChanged' = TRUE
  /\ phase' = "render"
  /\ UNCHANGED <<variant, seed, calls>>
  /\ UNCHANGED <<flights, filteredFlights, airports, filteredAirports, selectedFlight,
                 selectedAirport, error, searchTerm, loading, usingMockData,
                 mountPending, mounted, timer, inflight, started, ticks,
                 lastResponse, fault>>

\* onClick of the search button: handleSearch() of the last render.
ClickSearchDual ==
  /\ variant = "dual"
  /\ Idle
  /\ \E hs \in {handleSearchDual(flights, airports, searchTerm, searchType)} :
       /\ filteredFlights' = hs.filteredFlights
       /\ filteredAirports' = hs.filteredAirports
       /\ phase' = IF hs.filteredFlights # filteredFlights
                      \/ hs.filteredAirports # filteredAirports
                   THEN "render" ELSE "idle"
  /\ UNCHANGED <<variant, seed, calls>>
  /\ UNCHANGED <<flights, airports, selectedFlight, selectedAirport, error, searchTerm,
                 searchType, loading, usingMockData, mountPending, depsChanged,
                 mounted, timer, inflight, started, ticks, lastResponse, fault>>

\* A tick whose new list does not re-run the handleSearch effect (flights
\* missing from the effect's dependencies).
PerturbationTickNoEffect ==
  /\ variant = "dual"
  /\ Idle
  /\ timer
  /\ ticks < MaxTicks
  /\ flights' = PerturbAll(flights, seed, calls)
  /\ calls' = calls + 5 * Len(flights)
  /\ ticks' = ticks + 1
  /\ depsChanged' = FALSE
  /\ phase' = "render"
  /\ UNCHANGED <<filteredFlights, airports, filteredAirports, selectedFlight,
                 selectedAirport, error, searchTerm, searchType, loading,
                 usingMockData, mountPending, mounted, timer, inflight, started,
                 lastResponse, variant, seed, fault>>

\* The 5-second interval, as long as it is not cleared, fires:
\* setFlights(prevFlights => prevFlights.map(...)), whose updater React runs
\* only for a mounted component.
PerturbationTick ==
  /\ variant = "dual"
  /\ timer
  /\ Idle \/ ~mounted
  /\ ticks < MaxTicks
  /\ ticks' = ticks + 1
  /\ IF mounted
     THEN /\ flights' = PerturbAll(flights, seed, calls)
          /\ calls' = calls + 5 * Len(flights)
          /\ depsChanged' = TRUE
          /\ phase' = "render"
     ELSE UNCHANGED <<flights, calls, depsChanged, phase>>
  /\ UNCHANGED <<filteredFlights, airports, filteredAirports, selectedFlight,
                 selectedAirport, error, searchTerm, searchType, loading,
                 usingMockData, mountPending, mounted, timer, inflight, started,
                 lastResponse, variant, seed, fault>>

\* click on the <Marker> of the i-th rendered plane, drawn in flight mode.
ClickMarkerFlightDual ==
  /\ variant = "dual"
  /\ Idle
  /\ searchType = "flight"
  /\ \E i \in 1..MaxClick :
       /\ i <= Len(filteredFlights)
       /\ selectedFlight' = animatePlanesDual(filteredFlights)[i]
  /\ phase' = IF selectedFlight' # selectedFlight THEN "render" ELSE "idle"
  /\ UNCHANGED <<variant, seed, calls>>
  /\ UNCHANGED <<flights, filteredFlights, airports, filteredAirports, selectedAirport,
                 error, searchTerm, searchType, loading, usingMockData, mountPending,
                 depsChanged, mounted, timer, inflight, started, ticks, lastResponse,
                 fault>>

\* click on the <Marker> of the i-th filtered airport, drawn in airport mode.
ClickMarkerAirport ==
  /\ variant = "dual"
  /\ Idle
  /\ searchType = "airport"
  /\ \E i \in 1..MaxClick :
       /\ i <= Len(filteredAirports)
       /\ selectedAirport' = filteredAirports[i]
  /\ phase' = IF selectedAirport' # selectedAirport THEN "render" ELSE "idle"
  /\ UNCHANGED <<variant, seed, calls>>
  /\ UNCHANGED <<flights, filteredFlights, airports, filteredAirports, selectedFlight,
                 error, searchTerm, searchType, loading, usingMockData, mountPending,
                 depsChanged, mounted, timer, inflight, started, ticks, lastResponse,
                 fault>>

NextDual ==
  \/ Render
  \/ RunEffectsDual
  \/ ChangeSearchTerm
  \/ ChangeSearchType
  \/ ClickSearchDual
  \/ PerturbationTick
  \/ ClickMarkerFlightDual
  \/ ClickMarkerAirport
  \/ Unmount

InitDual == Init /\ variant = "dual"

SpecDual == InitDual /\ [][NextDual]_vars

(***************************************************************************)
(* Either component.                                                       *)
(***************************************************************************)
Next ==
  \/ Render
  \/ ChangeSearchTerm
  \/ Unmount
  \/ RunEffectsLive
  \/ ClickSearchLive
  \/ RefreshTick
  \/ ClickRetry
  \/ FetchResolve
  \/ ClickMarkerLive
  \/ RunEffectsDual
  \/ ChangeSearchType
  \/ ClickSearchDual
  \/ PerturbationTick
  \/ ClickMarkerFlightDual
  \/ ClickMarkerAirport

Spec == Init /\ [][Next]_vars

(***************************************************************************)
(* The fetch of the live variant.                                          *)
(***************************************************************************)
\* The response left no usable state array: the request was rejected, or the
\* body has no array under `states`, or an element of it cannot be read.
NoUsableStates(response) ==
  \/ response.kind = "reject"
  \/ /\ response.kind = "resolve"
     /\ \/ response.data.t # "obj"
        \/ response.data.states.t # "arr"
        \/ \E i \in 1..Len(response.data.states.v) :
             response.data.states.v[i].t # "arr"

\* C1: when the remote fetch fails or returns no usable state array, the
\* component holds exactly 100 synthetic records, the synthetic-data flag is
\* true, the error message is not empty, and nothing was raised to the caller.
C1_FailedFetchFallsBack ==
  NoUsableStates(lastResponse.response) =>
    /\ Len(flights) = 100
    /\ \A i \in 1..Len(flights) :
         /\ flights[i].icao24.t = "str"
         /\ flights[i].sensors = Null
    /\ usingMockData = TRUE
    /\ error.t = "str" /\ Len(error.v) > 0
    /\ fault = "none"

\* A rejected request has been answered with the synthetic list.
C1_Witness ==
  /\ lastResponse.response = Reject
  /\ Len(flights) = 100
  /\ usingMockData
  /\ Truthy(error)

\* The response carries an array of k state arrays whose callsign position
\* holds text or null.
UsableStates(response) ==
  /\ response.kind = "resolve"
  /\ response.data.t = "obj"
  /\ response.data.states.t = "arr"
  /\ \A i \in 1..Len(response.data.states.v) :
       /\ response.data.states.v[i].t = "arr"
       /\ response.data.states.v[i].v[2].t \in {"null", "str"}

\* The record the documented positions give for a state array, its callsign
\* supplied separately.
Positional(s, callsign) ==
  [icao24 |-> s[1], callsign |-> callsign, origin_country |-> s[3],
   time_position |-> s[4], last_contact |-> s[5], longitude |-> s[6],
   latitude |-> s[7], baro_altitude |-> s[8], on_ground |-> s[9],
   velocity |-> s[10], true_track |-> s[11], vertical_rate |-> s[12],
   sensors |-> s[13], geo_altitude |-> s[14], squawk |-> s[15], spi |-> s[16],
   position_source |-> s[17]]

\* The callsign as the display wants it: the text at position 1 without its
\* surrounding white space, "N/A" when that leaves nothing or there is none.
DisplayCallsign(x) ==
  IF x.t = "str" /\ Trim(x.v) # <<>> THEN Str(Trim(x.v)) ELSE Str(<<78, 47, 65>>)

\* C2 as stated: a response of k state arrays gives exactly k records, each
\* field of each the value at its documented position (callsign from
\* position 1), and the data is marked live.
C2_FieldsVerbatim ==
  UsableStates(lastResponse.response) =>
    LET elems == lastResponse.response.data.states.v
    IN  /\ Len(flights) = Len(elems)
        /\ \A i \in 1..Len(elems) :
             flights[i] = Positional(elems[i].v, elems[i].v[2])
        /\ usingMockData = FALSE
        /\ error = Null

\* C2: a response of k state arrays gives exactly k records in the order of
\* the array, each field the value at its documented position except the
\* callsign, which is position 1 trimmed, or "N/A" when it is null or blank;
\* the data is marked live and the error is cleared.
C2_FieldsPositional ==
  UsableStates(lastResponse.response) =>
    LET elems == lastResponse.response.data.states.v
    IN  /\ Len(flights) = Len(elems)
        /\ \A i \in 1..Len(elems) :
             flights[i] = Positional(elems[i].v, DisplayCallsign(elems[i].v[2]))
        /\ usingMockData = FALSE
        /\ error = Null

\* A response of two state arrays, one with a padded callsign, has been mapped.
C2_Witness ==
  /\ lastResponse.response = Resolve(Obj(Arr(<<StateDLH, StateAA>>)))
  /\ Len(flights) = 2
  /\ flights[1].callsign = Str(<<68, 76, 72, 49, 50>>)
  /\ flights[1].longitude = StateDLH.v[6]
  /\ ~usingMockData

(***************************************************************************)
(* The filter.                                                             *)
(***************************************************************************)
\* A field holds text that contains q, letter case aside.
Has(text, q) == Includes(ToLowerCase(text), ToLowerCase(q))

\* The records the filter is to keep, per record type.
MatchesLive(flight, q) ==
  \/ flight.icao24.t = "str" /\ Has(flight.icao24.v, q)
  \/ flight.callsign.t = "str" /\ Has(flight.callsign.v, q)

MatchesDual(flight, q) == Has(flight.flight_icao, q) \/ Has(flight.flight_iata, q)

MatchesAirport(airport, q) ==
  \/ Has(airport.airport_name, q)
  \/ Has(airport.iata_code, q)
  \/ Has(airport.icao_code, q)

\* The filter of each variant and mode as a function of the list and the
\* query: the list handleSearch publishes, or Threw.
FilterLive(L, q) == handleSearchLive(L, q)
FilterFlightsDual(L, q) ==
  Returned(handleSearchDual(L, <<>>, q, "flight").filteredFlights)
FilterAirports(L, q) ==
  Returned(handleSearchDual(<<>>, L, q, "airport").filteredAirports)

\* C3 as stated: for the full lists the component holds and every query with
\* a non-empty trimmed form, the filter returns exactly the matching records
\* in their order.
C3_ExactSubsequence ==
  \A q \in Queries :
    Trim(q) # <<>> =>
      IF variant = "live"
      THEN FilterLive(flights, q)
             = Returned(SelectSeq(flights, LAMBDA f : MatchesLive(f, q)))
      ELSE /\ FilterFlightsDual(flights, q)
                = Returned(SelectSeq(flights, LAMBDA f : MatchesDual(f, q)))
           /\ FilterAirports(airports, q)
                = Returned(SelectSeq(airports, LAMBDA a : MatchesAirport(a, q)))

\* C4: for the flight list the component holds and every query that is empty
\* or all white space, the filter returns that list itself, in either mode,
\* and it is the subset the component shows once its effects have run.
C4_EmptyQueryLaw ==
  /\ \A q \in Queries :
       Trim(q) = <<>> =>
         IF variant = "live"
         THEN FilterLive(flights, q) = Returned(flights)
         ELSE \A type \in {"flight", "airport"} :
                handleSearchDual(flights, airports, q, type).filteredFlights = flights
  /\ (Idle /\ Trim(searchTerm) = <<>>) => filteredFlights = flights

\* A white-space query is in the box, the list is not empty, the effects
\* have run and the subset is the whole list.
C4_Witness ==
  /\ Idle
  /\ searchTerm = <<32>>
  /\ Len(flights) > 0
  /\ filteredFlights = flights

\* C5 as stated: in the dual-mode variant at rest with a query whose trimmed
\* form is empty, the subset of the active mode is its full list and the
\* subset of the other record type is empty.
C5_EmptyQueryActiveMode ==
  (variant = "dual" /\ Idle /\ Trim(searchTerm) = <<>>) =>
    IF searchType = "flight"
    THEN filteredFlights = flights /\ filteredAirports = <<>>
    ELSE filteredAirports = airports /\ filteredFlights = <<>>

\* C6 as stated: for the lists the component holds, every mode and every
\* query, filtering by the query, by its lower case and by its upper case
\* give the same subset.
C6_CaseInsensitive ==
  \A q \in Queries :
    IF variant = "live"
    THEN /\ FilterLive(flights, q) = FilterLive(flights, ToLowerCase(q))
         /\ FilterLive(flights, q) = FilterLive(flights, ToUpperCase(q))
    ELSE /\ FilterFlightsDual(flights, q) = FilterFlightsDual(flights, ToLowerCase(q))
         /\ FilterFlightsDual(flights, q) = FilterFlightsDual(flights, ToUpperCase(q))
         /\ FilterAirports(airports, q) = FilterAirports(airports, ToLowerCase(q))
         /\ FilterAirports(airports, q) = FilterAirports(airports, ToUpperCase(q))

\* C7 as stated: for the lists the component holds, every mode and every
\* query, the filter returns a list, and filtering that list again with the
\* same query returns it unchanged.
C7_Idempotent ==
  \A q \in Queries :
    IF variant = "live"
    THEN LET r == FilterLive(flights, q)
         IN  r.ok /\ FilterLive(r.val, q) = r
    ELSE /\ LET r == FilterFlightsDual(flights, q)
            IN  FilterFlightsDual(r.val, q) = r
         /\ LET r == FilterAirports(airports, q)
            IN  FilterAirports(r.val, q) = r

\* C8 as stated: every state a render has shown (the component is mounted
\* and no render is pending) has the subsets equal to the filter of the
\* current lists by the current query and mode.
C8_RenderSeesFilter ==
  (mounted /\ phase # "render") =>
    IF variant = "live"
    THEN FilterLive(flights, searchTerm) = Returned(filteredFlights)
    ELSE handleSearchDual(flights, airports, searchTerm, searchType)
           = [filteredFlights |-> filteredFlights,
              filteredAirports |-> filteredAirports]

(***************************************************************************)
(* The perturbation tick of the dual-mode variant.                         *)
(***************************************************************************)
\* The record with its five kinematic fields taken from another record.
WithKinematicsOf(flight, other) ==
  [flight EXCEPT !.latitude = other.latitude,
                 !.longitude = other.longitude,
                 !.altitude = other.altitude,
                 !.speed = other.speed,
                 !.direction = other.direction]

\* C9: a perturbation tick keeps the length and the order of the flight list
\* and every field of every record other than latitude, longitude, altitude,
\* speed and direction, and it leaves the airport list, the query, the mode
\* and the selection as they were.
C9_TickFrame ==
  [][ticks' # ticks =>
       /\ Len(flights') = Len(flights)
       /\ \A i \in 1..Len(flights) :
            /\ flights'[i].flight_icao = flights[i].flight_icao
            /\ WithKinematicsOf(flights'[i], flights[i]) = flights[i]
       /\ airports' = airports
       /\ searchTerm' = searchTerm
       /\ searchType' = searchType
       /\ selectedFlight' = selectedFlight
       /\ selectedAirport' = selectedAirport]_vars

\* A tick has moved the hundred generated flights while a query was in the
\* box and a flight was selected.
C9_Witness ==
  /\ ticks >= 1
  /\ Len(flights) = 100
  /\ flights # fetchMockData[seed].flights
  /\ searchTerm # <<>>
  /\ selectedFlight # Null

\* C10: once a perturbation tick has run, every flight has its altitude in
\* [5000, 40000], its speed in [300, 800] and its direction in [0, 360).
C10_TickBounds ==
  ticks >= 1 =>
    \A i \in 1..Len(flights) :
      /\ Fix(5000) <= flights[i].altitude /\ flights[i].altitude <= Fix(40000)
      /\ Fix(300) <= flights[i].speed /\ flights[i].speed <= Fix(800)
      /\ 0 <= flights[i].direction /\ flights[i].direction < Fix(360)

\* After the first tick a flight generated above 40000 sits at 40000, and
\* one generated within half a turn of the perturbation below 360 has wrapped.
C10_Witness ==
  /\ ticks = 1
  /\ \E i \in 1..Len(flights) :
       /\ fetchMockData[seed].flights[i].altitude > Fix(40000)
       /\ flights[i].altitude = Fix(40000)
  /\ \E i \in 1..Len(flights) :
       flights[i].direction < fetchMockData[seed].flights[i].direction - Fix(300)

(***************************************************************************)
(* The selection.                                                          *)
(***************************************************************************)
\* C11 as stated: a flight selection and an airport selection are never both
\* held at once.
C11_AtMostOneSelection == ~(selectedFlight # Null /\ selectedAirport # Null)

\* C12: a step that replaces the flight list (a refresh completing, a
\* perturbation tick) leaves the selected flight and the selected airport
\* exactly as they were, whatever the new list holds.
C12_RefreshKeepsSelection ==
  [][(flights' # flights \/ lastResponse' # lastResponse \/ ticks' # ticks) =>
       /\ selectedFlight' = selectedFlight
       /\ selectedAirport' = selectedAirport]_vars

\* A flight is selected and a later refresh has published a non-empty list
\* that has no record of its identity.
C12_Witness ==
  /\ variant = "live"
  /\ selectedFlight # Null
  /\ Len(flights) > 0
  /\ lastResponse.call >= 2
  /\ \A i \in 1..Len(flights) : flights[i].icao24 # selectedFlight.icao24

\* The markers a click can land on: the planes drawn from the visible subset
\* (in the dual-mode variant in flight mode only), and the airports drawn in
\* airport mode.
PlaneMarkers ==
  IF variant = "live"
  THEN {animatePlanesLive(filteredFlights)[i] :
          i \in {j \in 1..Len(filteredFlights) : HasMarkerLive(filteredFlights[j])}}
  ELSE IF searchType = "flight"
       THEN {animatePlanesDual(filteredFlights)[i] : i \in 1..Len(filteredFlights)}
       ELSE {}

AirportMarkers ==
  IF variant = "dual" /\ searchType = "airport"
  THEN {filteredAirports[i] : i \in 1..Len(filteredAirports)}
  ELSE {}

\* C13: a step that changes the query, the mode or a visible subset leaves
\* both selections as they were, and a step that changes a selection leaves
\* the query, the mode and the subsets alone and sets the selection to a
\* record whose marker was drawn: only a marker click selects.
C13_OnlyClickSelects ==
  [][/\ (\/ searchTerm' # searchTerm
         \/ searchType' # searchType
         \/ filteredFlights' # filteredFlights
         \/ filteredAirports' # filteredAirports) =>
          (selectedFlight' = selectedFlight /\ selectedAirport' = selectedAirport)
     /\ selectedFlight' # selectedFlight => selectedFlight' \in PlaneMarkers
     /\ selectedAirport' # selectedAirport => selectedAirport' \in AirportMarkers]_vars

\* A flight is selected, the query has since been changed, the effects have
\* run, and the recomputed subset of a non-empty list is empty.
C13_Witness ==
  /\ Idle
  /\ selectedFlight # Null
  /\ searchTerm # <<>>
  /\ Len(flights) > 0
  /\ filteredFlights = <<>>

(***************************************************************************)
(* Faults.                                                                 *)
(***************************************************************************)
\* C14 as stated: no exception leaves an effect or a handler, and on every
\* list the live variant has published, records without identity included,
\* the filter completes for every query.
C14_NoUnhandledFault ==
  variant = "live" =>
    /\ fault = "none"
    /\ \A q \in Queries : FilterLive(flights, q).ok

(***************************************************************************)
(* Refreshes of the live variant.                                          *)
(***************************************************************************)
\* C15: every start of a refresh sends a request to the live source,
\* whatever the provenance flag, and a refresh that completes with a usable
\* state array while the synthetic list is shown publishes the mapped live
\* list with usingMockData false and no error.
C15_FallbackNotSticky ==
  [][/\ started' # started => inflight' = inflight \cup {started'}
     /\ (usingMockData /\ lastResponse' # lastResponse
           /\ TryBlock(lastResponse'.response).ok) =>
          /\ flights' = TryBlock(lastResponse'.response).val
          /\ usingMockData' = FALSE
          /\ error' = Null]_vars

\* The synthetic list has been shown, and a later refresh, started by the
\* timer or the retry button, has replaced it with a live list of two records.
C15_Witness ==
  /\ mounted
  /\ calls > 0
  /\ lastResponse.call >= 2
  /\ Len(flights) = 2
  /\ ~usingMockData
  /\ error = Null

(***************************************************************************)
(* Identities.                                                             *)
(***************************************************************************)
\* C16 as stated: no two flights of the published list share an identity
\* (icao24 in the live variant, flight_icao in the dual-mode variant), and
\* no two airports share an IATA code.
C16_UniqueIdentities ==
  /\ \A i, j \in 1..Len(flights) :
       i # j =>
         IF variant = "live"
         THEN flights[i].icao24 # flights[j].icao24
         ELSE flights[i].flight_icao # flights[j].flight_icao
  /\ \A i, j \in 1..Len(airports) :
       i # j => airports[i].iata_code # airports[j].iata_code

(***************************************************************************)
(* Records without a position (live variant).                              *)
(***************************************************************************)
\* The record has both coordinates.
HasPosition(flight) == flight.latitude # Null /\ flight.longitude # Null

\* C17 as stated: at rest in the live variant, a record of the visible
\* subset that lacks a coordinate has no marker, and still a user action
\* that makes it the selected record is available.
C17_PositionlessSelectable ==
  (variant = "live" /\ Idle) =>
    \A i \in 1..MaxClick :
      (i <= Len(filteredFlights) /\ ~HasPosition(filteredFlights[i])) =>
        /\ ~HasMarkerLive(filteredFlights[i])
        /\ ENABLED (/\ Next
                    /\ selectedFlight' # Null
                    /\ selectedFlight'.icao24 = filteredFlights[i].icao24)

\* What the code gives instead: a record without a position gets no marker,
\* it is kept by the filter when it matches, and no sequence of actions ever
\* makes it the selected record.
C17_NeverSelected ==
  variant = "live" =>
    /\ \A i \in 1..Len(filteredFlights) :
         ~HasPosition(filteredFlights[i]) => ~HasMarkerLive(filteredFlights[i])
    /\ selectedFlight # Null => HasPosition(selectedFlight)

(***************************************************************************)
(* The subsets at rest.                                                    *)
(***************************************************************************)
\* C18: whenever the component is at rest (mounted, no render and no effect
\* pending), the visible subsets are what handleSearch gives for the current
\* lists, query and mode.
C18_QuiescentFilter ==
  Idle =>
    IF variant = "live"
    THEN FilterLive(flights, searchTerm) = Returned(filteredFlights)
    ELSE handleSearchDual(flights, airports, searchTerm, searchType)
           = [filteredFlights |-> filteredFlights,
              filteredAirports |-> filteredAirports]

\* At rest after a perturbation tick with a query that keeps some flights
\* and drops others: the subset holds the perturbed records.
C18_Witness ==
  /\ variant = "dual"
  /\ Idle
  /\ ticks >= 1
  /\ Trim(searchTerm) # <<>>
  /\ searchType = "flight"
  /\ 0 < Len(filteredFlights)
  /\ Len(filteredFlights) < Len(flights)
  /\ \E i \in 1..Len(flights) :
       /\ filteredFlights[1] = flights[i]
       /\ flights[i] # fetchMockData[seed].flights[i]

(***************************************************************************)
(* Overlapping refreshes of the live variant.                              *)
(***************************************************************************)
\* The lists generateMockFlights(100) can have produced in this run.
SyntheticLists ==
  {mockFlightsLive[seed, 14 * MockCountLive * n, now] :
     n \in 0..(MaxFetches - 1), now \in Clock}

\* C19: in every state of the live variant the flight list, the provenance
\* flag and the error message come from one completion of fetchFlights, the
\* last one: before any, the initial values; after a usable response, its
\* mapped list, flag false, no error; after a failed one, a synthetic list,
\* flag true, the error message.  So the flag is true exactly when the error
\* is set and exactly when the list is synthetic.
C19_SnapshotNotTorn ==
  variant = "live" =>
    /\ usingMockData <=> (error # Null)
    /\ usingMockData <=> (flights \in SyntheticLists)
    /\ IF lastResponse = NoResponse
       THEN flights = <<>> /\ ~usingMockData /\ error = Null
       ELSE LET r == TryBlock(lastResponse.response)
            IN  IF r.ok
                THEN flights = r.val /\ ~usingMockData /\ error = Null
                ELSE /\ flights \in SyntheticLists
                     /\ usingMockData
                     /\ error = Str(FetchErrorMessage)

\* Two refreshes overlapped and both have completed, the one started first
\* completing last and falling back to the synthetic list.
C19_Witness ==
  /\ variant = "live"
  /\ mounted
  /\ started = 2
  /\ inflight = {}
  /\ lastResponse.call = 1
  /\ usingMockData
  /\ Len(flights) = 100

\* C20: every completion of fetchFlights publishes its own result, whether
\* or not a refresh started later has completed before it: the snapshot is
\* that of the response that resolved last.
C20_LastResolvedWins ==
  [][(variant = "live" /\ lastResponse' # lastResponse) =>
       LET r == TryBlock(lastResponse'.response)
       IN  IF r.ok
           THEN flights' = r.val /\ filteredFlights' = r.val
                  /\ usingMockData' = FALSE /\ error' = Null
           ELSE /\ \E now \in Clock : flights' = mockFlightsLive[seed, calls, now]
                /\ filteredFlights' = flights'
                /\ usingMockData' = TRUE
                /\ error' = Str(FetchErrorMessage)]_vars

\* The second refresh started while the first was outstanding and completed
\* first; the first then completed with two live records, which are shown.
C20_Witness ==
  /\ variant = "live"
  /\ mounted
  /\ started = 2
  /\ inflight = {}
  /\ lastResponse.call = 1
  /\ lastResponse.response = Resolve(Obj(Arr(<<StateDLH, StateAA>>)))
  /\ Len(flights) = 2
  /\ ~usingMockData

\* C21 as stated: while the live variant is mounted, loading is true whenever
\* a refresh is awaiting its response, and false once every started refresh
\* has completed.
C21_LoadingTracksRefreshes ==
  (variant = "live" /\ mounted) =>
    /\ inflight # {} => loading
    /\ (inflight = {} /\ started > 0) => ~loading

(***************************************************************************)
(* Teardown.                                                               *)
(***************************************************************************)
\* C22: once the view is unmounted no interval is left running, no step
\* starts a refresh or applies a perturbation tick, and a refresh that was
\* awaiting its response at teardown can still complete and is then no
\* longer outstanding.
C22_TimersReleased ==
  /\ [](~mounted => ~timer)
  /\ [][~mounted => (/\ ~mounted'
                      /\ started' = started
                      /\ ticks' = ticks
                      /\ flights' = flights)]_vars
  /\ []((~mounted /\ inflight # {}) => ENABLED FetchResolve)
  /\ [][(~mounted /\ inflight' # inflight) =>
         (inflight' \subseteq inflight /\ Cardinality(inflight') = Cardinality(inflight) - 1)]_vars

\* The view was torn down while the mount refresh was awaiting its response,
\* and that refresh has since completed without publishing anything.
C22_Witness ==
  /\ variant = "live"
  /\ ~mounted
  /\ ~timer
  /\ started >= 1
  /\ inflight = {}
  /\ lastResponse = NoResponse

(***************************************************************************)
(* The two subsets of the dual-mode variant.                               *)
(***************************************************************************)
\* C23: in every state of the dual-mode variant at most one of
\* filteredFlights and filteredAirports is non-empty.
C23_SubsetsExclusive ==
  variant = "dual" => (filteredFlights = <<>> \/ filteredAirports = <<>>)

\* After a tick, in airport mode with a query that matches airports: the
\* airport subset is shown and the flight subset, non-empty before the mode
\* was switched, is empty.
C23_Witness ==
  /\ variant = "dual"
  /\ Idle
  /\ ticks >= 1
  /\ searchType = "airport"
  /\ Len(flights) > 0
  /\ Len(filteredAirports) > 0
  /\ filteredFlights = <<>>

====
